---- MODULE Spec2Model ----
(***************************************************************************)
(* A model of src/phy/tuntap_interface.rs: the TUN/TAP device adapter.     *)
(*                                                                         *)
(* TunTapInterface holds lower: Arc<Mutex<sys::TunTapInterfaceDesc>>, the   *)
(* cached mtu and medium.  receive() and TxToken::consume() lock the       *)
(* mutex around their reads and writes of the descriptor; every TxToken    *)
(* holds a clone of the Arc.  The descriptor itself (sys::...Desc) is not  *)
(* part of the file: it is modelled as the black box the specification     *)
(* describes (create-or-attach, attach, MTU query, non-blocking read,      *)
(* write, release on drop).                                                *)
(***************************************************************************)
EXTENDS Integers, Sequences, FiniteSets, TLC

\* ------------------------------------------------------------------ bounds
NumThreads == 2     \* threads of control using the handle and its tokens
MaxTx      == 2     \* TxTokens issued in one behaviour
MaxRx      == 1     \* RxTokens issued in one behaviour
MaxQueue   == 1     \* packets waiting in the kernel for the interface
MaxByte    == 1     \* byte values are 0..MaxByte
MaxMtu     == 2     \* largest MTU the interface may report
MaxLen     == 2     \* longest packet / longest requested transmit length

Threads  == 1..NumThreads
TxIds    == 1..MaxTx
RxIds    == 1..MaxRx
Byte     == 0..MaxByte
Mtus     == 1..MaxMtu
Mediums  == {"Ethernet", "Ip"}
NoThread == 0

\* All byte strings of length n / of length at most n.
RECURSIVE BytesOfLen(_)
BytesOfLen(n) ==
    IF n = 0 THEN {<<>>}
    ELSE {Append(s, b) : s \in BytesOfLen(n - 1), b \in Byte}

RECURSIVE BytesUpTo(_)
BytesUpTo(n) ==
    IF n = 0 THEN {<<>>} ELSE BytesOfLen(n) \cup BytesUpTo(n - 1)

Min(a, b) == IF a <= b THEN a ELSE b

\* vec![0; n]
Zeros(n) == [i \in 1..n |-> 0]

\* Vec::resize(n, 0): truncate to n, or extend with zeros up to n.
Resize(v, n) == [i \in 1..n |-> IF i <= Len(v) THEN v[i] ELSE 0]

\* ------------------------------------------------------------------ state
VARIABLES
    hstate,        \* the TunTapInterface value: "unopened" | "open" | "dropped"
    mtu,           \* TunTapInterface.mtu   (0 before construction)
    medium,        \* TunTapInterface.medium ("none" before construction)
    desc,          \* the latest descriptor (OS resource): "none" | "open" | "closed"
    releases,      \* how many times that descriptor was released
    strong,        \* strong count of the Arc around the Mutex
    locked,        \* the thread holding the MutexGuard, NoThread if free
    poisoned,      \* the Mutex's poison flag
    borrow,        \* the thread inside a &mut self method of the handle
    rxq,           \* packets queued in the kernel, oldest first
    tx,            \* TxToken id -> "none" | "created" | "consuming" | "consumed" | "dropped"
    rx,            \* RxToken id -> "none" | "created" | "consumed" | "dropped"
    rxbuf,         \* RxToken id -> RxToken.buffer
    delivered,     \* RxToken id -> the bytes the descriptor's read delivered (history)
    pc,            \* thread -> its position in the operation it runs
    cur,           \* thread -> the TxToken it is consuming (0 if none)
    len,           \* thread -> the `len` argument of the consume it runs
    buf,           \* thread -> the local `buffer`
    res,           \* thread -> the local `result` (the callback's value)
    given,         \* thread -> the buffer its callback was handed (history)
    wrote,         \* thread -> the payload of the write it issued (history)
    nio,           \* thread -> reads / writes its running operation issued (history)
    wlog,          \* the TxTokens whose writes were issued, in order (history)
    acq,           \* the TxTokens whose consume acquired the lock, in order (history)
    nest,          \* thread -> the TxToken its callback consumes (0 if none)
    last           \* what the step just taken returned to its caller (NoRet: nothing)

vars == <<hstate, mtu, medium, desc, releases, strong, locked, poisoned,
          borrow, rxq, tx, rx, rxbuf, delivered, pc, cur, len, buf, res, given,
          wrote, nio, wlog, acq, nest, last>>

handleVars == <<hstate, mtu, medium>>
descVars   == <<desc, releases>>
lockVars   == <<locked, poisoned>>
rxVars     == <<rx, rxbuf, delivered>>
localVars  == <<cur, len, buf, res, given, wrote, nio>>

Unset == <<-1>>

\* What an operation on thread t returned.  op names the operation; val is
\* the value ("Ok", "Err", "Some", "None", "SetupError", "panic"); rxt / txt
\* are the tokens it issued or consumed; cb is what the callback returned; io
\* the outcome of the descriptor read or write it made; n the reads / writes
\* it issued (for new: the step that failed); a and b carry the buffers or
\* capabilities the operation's checks compare.
Ret(op, t, val) ==
    [op |-> op, val |-> val, rxt |-> 0, txt |-> 0, cb |-> "none",
     io |-> "none", n |-> 0, a |-> Unset, b |-> Unset]

NoRet == Ret("none", NoThread, "none")

DescIsOpen == desc = "open"

Init ==
    /\ hstate = "unopened"
    /\ mtu = 0
    /\ medium = "none"
    /\ desc = "none"
    /\ releases = 0
    /\ strong = 0
    /\ locked = NoThread
    /\ poisoned = FALSE
    /\ borrow = NoThread
    /\ rxq = <<>>
    /\ tx = [k \in TxIds |-> "none"]
    /\ rx = [k \in RxIds |-> "none"]
    /\ rxbuf = [k \in RxIds |-> <<>>]
    /\ delivered = [k \in RxIds |-> Unset]
    /\ pc = [t \in Threads |-> "idle"]
    /\ cur = [t \in Threads |-> 0]
    /\ len = [t \in Threads |-> 0]
    /\ buf = [t \in Threads |-> <<>>]
    /\ res = [t \in Threads |-> "none"]
    /\ given = [t \in Threads |-> Unset]
    /\ wrote = [t \in Threads |-> Unset]
    /\ nio = [t \in Threads |-> 0]
    /\ wlog = <<>>
    /\ acq = <<>>
    /\ nest = [t \in Threads |-> 0]
    /\ last = NoRet

\* ------------------------------------------------- the descriptor (sys)
\* TunTapInterfaceDesc::recv on a non-blocking descriptor with a buffer of
\* `cap` bytes: would-block when nothing is queued, else the oldest packet,
\* cut to the buffer's capacity.
recv(q, cap) ==
    IF q = <<>>
    THEN [kind |-> "WouldBlock", size |-> 0, data |-> <<>>]
    ELSE [kind |-> "Ok",
          size |-> Min(Len(Head(q)), cap),
          data |-> SubSeq(Head(q), 1, Min(Len(Head(q)), cap))]

\* Every outcome one read can have: the one above, or an I/O failure.
RecvResults(q, cap) ==
    {recv(q, cap), [kind |-> "Err", size |-> 0, data |-> <<>>]}

\* Every outcome of TunTapInterfaceDesc::send.
SendResults == {"Ok", "Err"}

\* Drop of a TunTapInterfaceDesc released n times so far: the OS resource is
\* released.
DescDrop(n) ==
    /\ desc' = "closed"
    /\ releases' = n + 1

\* ------------------------------------------------------------ Arc, tokens
\* Drop of one Arc<Mutex<Desc>> owner: the last one drops the descriptor.
ArcDrop ==
    /\ strong' = strong - 1
    /\ IF strong = 1 THEN DescDrop(releases) ELSE UNCHANGED descVars

\* Arc::clone
ArcClone ==
    /\ strong' = strong + 1
    /\ UNCHANGED descVars

\* The id the next token of a kind gets; 0 when MaxTokens were issued.
NextId(f) ==
    IF \E k \in DOMAIN f : f[k] = "none"
    THEN CHOOSE k \in DOMAIN f : f[k] = "none" /\ \A j \in DOMAIN f : j < k => f[j] # "none"
    ELSE 0

CbResults == {"Ok", "Err"}

\* --------------------------------------------------- new / new_with_fd
\* Construct as it would be if a failed MTU query fell back to a default MTU
\* (unwrap_or) instead of returning the error.
Construct_mtu_default(t, via, med, failAt, m) ==
    /\ pc[t] = "idle"
    /\ hstate = "unopened"
    /\ IF failAt \in {0, 3}
       THEN /\ hstate' = "open"
            /\ mtu' = m
            /\ medium' = med
            /\ strong' = 1
            /\ desc' = "open"
            /\ releases' = 0
            /\ last' = [Ret(via, t, "Ok") EXCEPT !.n = failAt]
       ELSE /\ IF failAt = 1 THEN UNCHANGED descVars ELSE DescDrop(0)
            /\ last' = [Ret(via, t, "SetupError") EXCEPT !.n = failAt]
            /\ UNCHANGED <<hstate, mtu, medium, strong>>
    /\ UNCHANGED <<lockVars, borrow, rxq, tx, rxVars, pc, localVars, wlog, acq, nest>>

\* The body shared by new and new_with_fd: three steps chained with `?`.
\* failAt is the step that fails (0: none); m is the MTU the query reports.
\* Step 1 builds the descriptor `lower`; a `?` that returns early after it
\* drops `lower`.
Construct(t, via, med, failAt, m) ==
    /\ pc[t] = "idle"
    /\ hstate = "unopened"
    /\ IF failAt = 0
       THEN /\ hstate' = "open"
            /\ mtu' = m
            /\ medium' = med
            /\ strong' = 1
            /\ desc' = "open"
            /\ releases' = 0
            /\ last' = [Ret(via, t, "Ok") EXCEPT !.n = failAt]
       ELSE /\ IF failAt = 1 THEN UNCHANGED descVars ELSE DescDrop(0)
            /\ last' = [Ret(via, t, "SetupError") EXCEPT !.n = failAt]
            /\ UNCHANGED <<hstate, mtu, medium, strong>>
    /\ UNCHANGED <<lockVars, borrow, rxq, tx, rxVars, pc, localVars, wlog, acq, nest>>

New(t) ==
    \E med \in Mediums, failAt \in 0..3, m \in Mtus :
        Construct(t, "new", med, failAt, m)

NewWithFd(t) ==
    \E med \in Mediums, failAt \in 0..3, m \in Mtus :
        Construct(t, "new_with_fd", med, failAt, m)

\* Drop of the TunTapInterface value (no method of it is running).
DropHandle ==
    /\ hstate = "open"
    /\ borrow = NoThread
    /\ hstate' = "dropped"
    /\ ArcDrop
    /\ last' = NoRet
    /\ UNCHANGED <<mtu, medium, lockVars, borrow, rxq, tx, rxVars, pc, localVars,
                   wlog, acq, nest>>

\* A packet arrives at the interface (the environment).  Packets that no
\* receive could read any more (the handle is gone, or the token bounds are
\* used up) are left out.
Inject(p) ==
    /\ DescIsOpen
    /\ hstate = "open"
    /\ NextId(rx) # 0
    /\ NextId(tx) # 0
    /\ Len(rxq) < MaxQueue
    /\ rxq' = Append(rxq, p)
    /\ last' = NoRet
    /\ UNCHANGED <<handleVars, descVars, strong, lockVars, borrow, tx, rxVars, pc,
                   localVars, wlog, acq, nest>>

\* ------------------------------------------------------------- capabilities
\* capabilities as it would be if it asked the descriptor for the MTU again
\* (lower.lock().unwrap().interface_mtu()) instead of using the cached field.
capabilities_requery(t) ==
    /\ pc[t] = "idle"
    /\ hstate = "open"
    /\ borrow = NoThread
    /\ locked = NoThread
    /\ \E m \in Mtus :
          last' = [Ret("capabilities", t, IF poisoned THEN "panic" ELSE "Some")
                      EXCEPT !.a = <<m, medium>>]
    /\ UNCHANGED <<handleVars, descVars, strong, lockVars, borrow, rxq, tx, rxVars,
                   pc, localVars, wlog, acq, nest>>

capabilities(t) ==
    /\ pc[t] = "idle"
    /\ hstate = "open"
    /\ borrow = NoThread
    /\ last' =
                  [Ret("capabilities", t, "Some") EXCEPT !.a = <<mtu, medium>>]
    /\ UNCHANGED <<handleVars, descVars, strong, lockVars, borrow, rxq, tx, rxVars,
                   pc, localVars, wlog, acq, nest>>

\* as_raw_fd: lock().unwrap(), read the fd, unlock.  Runs when the lock is free.
as_raw_fd(t) ==
    /\ pc[t] = "idle"
    /\ hstate = "open"
    /\ borrow = NoThread
    /\ locked = NoThread
    /\ last' =
                  Ret("as_raw_fd", t, IF poisoned THEN "panic" ELSE "Some")
    /\ UNCHANGED <<handleVars, descVars, strong, lockVars, borrow, rxq, tx, rxVars,
                   pc, localVars, wlog, acq, nest>>

\* ------------------------------------------------------------------ receive
\* receive(&'a mut self) is entered: the handle is mutably borrowed.
receive_call(t) ==
    /\ pc[t] = "idle"
    /\ hstate = "open"
    /\ borrow = NoThread
    /\ NextId(rx) # 0
    /\ NextId(tx) # 0
    /\ borrow' = t
    /\ pc' = [pc EXCEPT ![t] = "rx_lock"]
    /\ last' = NoRet
    /\ UNCHANGED <<handleVars, descVars, strong, lockVars, rxq, tx, rxVars,
                   localVars, wlog, acq, nest>>

\* receive_lock as it would be if the buffer were allocated one byte larger
\* than the MTU (vec![0; self.mtu + 1]).
receive_lock_bigbuf(t) ==
    /\ pc[t] = "rx_lock"
    /\ locked = NoThread
    /\ IF poisoned
       THEN /\ pc' = [pc EXCEPT ![t] = "idle"]
            /\ last' = Ret("receive", t, "panic")
            /\ borrow' = NoThread
            /\ UNCHANGED <<locked, buf>>
       ELSE /\ locked' = t
            /\ buf' = [buf EXCEPT ![t] = Zeros(mtu + 1)]
            /\ pc' = [pc EXCEPT ![t] = "rx_recv"]
            /\ last' = NoRet
            /\ UNCHANGED borrow
    /\ UNCHANGED <<handleVars, descVars, strong, poisoned, rxq, tx, rxVars, cur,
                   len, res, given, wrote, nio, wlog, acq, nest>>

\* receive_lock as it would be if receive took the descriptor without waiting
\* for the mutex (try_lock with the failure ignored).
receive_lock_nowait(t) ==
    /\ pc[t] = "rx_lock"
    /\ locked' = t
    /\ buf' = [buf EXCEPT ![t] = Zeros(mtu)]
    /\ pc' = [pc EXCEPT ![t] = "rx_recv"]
    /\ last' = NoRet
    /\ UNCHANGED <<handleVars, descVars, strong, poisoned, borrow, rxq, tx, rxVars,
                   cur, len, res, given, wrote, nio, wlog, acq, nest>>

\* let mut lower = self.lower.lock().unwrap(); let mut buffer = vec![0; self.mtu];
\* lock() waits until the mutex is free; unwrap() panics when it is poisoned.
receive_lock(t) ==
    /\ pc[t] = "rx_lock"
    /\ locked = NoThread
    /\ IF poisoned
       THEN /\ pc' = [pc EXCEPT ![t] = "idle"]
            /\ last' = Ret("receive", t, "panic")
            /\ borrow' = NoThread
            /\ UNCHANGED <<locked, buf>>
       ELSE /\ locked' = t
            /\ buf' = [buf EXCEPT ![t] = Zeros(mtu)]
            /\ pc' = [pc EXCEPT ![t] = "rx_recv"]
            /\ last' = NoRet
            /\ UNCHANGED borrow
    /\ UNCHANGED <<handleVars, descVars, strong, poisoned, rxq, tx, rxVars, cur,
                   len, res, given, wrote, nio, wlog, acq, nest>>

\* lower.recv(&mut buffer[..]) is issued: a read on the descriptor is in progress.
receive_recv(t) ==
    /\ pc[t] = "rx_recv"
    /\ pc' = [pc EXCEPT ![t] = "rx_reading"]
    /\ nio' = [nio EXCEPT ![t] = nio[t] + 1]
    /\ last' = NoRet
    /\ UNCHANGED <<handleVars, descVars, strong, lockVars, borrow, rxq, tx, rxVars,
                   cur, len, buf, res, given, wrote, wlog, acq, nest>>

\* The end of receive on thread t, by return or by unwinding: the guard and
\* the buffer (unless moved into the token) are dropped, the borrow ends.
receive_exit(t) ==
    /\ locked' = NoThread
    /\ borrow' = NoThread
    /\ pc' = [pc EXCEPT ![t] = "idle"]
    /\ buf' = [buf EXCEPT ![t] = <<>>]
    /\ nio' = [nio EXCEPT ![t] = 0]
    /\ UNCHANGED <<handleVars, cur, len, res, given, wrote, wlog, acq, nest>>

\* receive_ok as it would be without buffer.resize(size, 0).
receive_ok_noresize(t, r) ==
    /\ r.kind = "Ok"
    /\ LET filled  == [i \in 1..Len(buf[t]) |->
                          IF i <= r.size THEN r.data[i] ELSE buf[t][i]]
           rid     == NextId(rx)
           tid     == NextId(tx)
       IN  /\ rxq' = Tail(rxq)
           /\ rx' = [rx EXCEPT ![rid] = "created"]
           /\ rxbuf' = [rxbuf EXCEPT ![rid] = filled]
           /\ delivered' = [delivered EXCEPT ![rid] = r.data]
           /\ tx' = [tx EXCEPT ![tid] = "created"]
           /\ ArcClone
           /\ last' = [Ret("receive", t, "Some") EXCEPT
                          !.rxt = rid, !.txt = tid, !.io = r.kind, !.n = nio[t]]
           /\ UNCHANGED poisoned
    /\ receive_exit(t)

\* receive_ok as it would be if the TxToken it returns did not hold a clone
\* of the handle's Arc.
receive_ok_unshared(t, r) ==
    /\ r.kind = "Ok"
    /\ LET filled  == [i \in 1..Len(buf[t]) |->
                          IF i <= r.size THEN r.data[i] ELSE buf[t][i]]
           buffer  == Resize(filled, r.size)
           rid     == NextId(rx)
           tid     == NextId(tx)
       IN  /\ rxq' = Tail(rxq)
           /\ rx' = [rx EXCEPT ![rid] = "created"]
           /\ rxbuf' = [rxbuf EXCEPT ![rid] = buffer]
           /\ delivered' = [delivered EXCEPT ![rid] = r.data]
           /\ tx' = [tx EXCEPT ![tid] = "created"]
           /\ UNCHANGED <<strong, descVars>>
           /\ last' = [Ret("receive", t, "Some") EXCEPT
                          !.rxt = rid, !.txt = tid, !.io = r.kind, !.n = nio[t]]
           /\ UNCHANGED poisoned
    /\ receive_exit(t)

\* Ok(size) => { buffer.resize(size, 0); Some((RxToken { buffer }, TxToken { .. })) }
\* The read has put r.data into the first r.size bytes of the buffer.
receive_ok(t, r) ==
    /\ r.kind = "Ok"
    /\ LET filled  == [i \in 1..Len(buf[t]) |->
                          IF i <= r.size THEN r.data[i] ELSE buf[t][i]]
           buffer  == Resize(filled, r.size)
           rid     == NextId(rx)
           tid     == NextId(tx)
       IN  /\ rxq' = Tail(rxq)
           /\ rx' = [rx EXCEPT ![rid] = "created"]
           /\ rxbuf' = [rxbuf EXCEPT ![rid] = buffer]
           /\ delivered' = [delivered EXCEPT ![rid] = r.data]
           /\ tx' = [tx EXCEPT ![tid] = "created"]
           /\ ArcClone
           /\ last' = [Ret("receive", t, "Some") EXCEPT
                          !.rxt = rid, !.txt = tid, !.io = r.kind, !.n = nio[t]]
           /\ UNCHANGED poisoned
    /\ receive_exit(t)

\* receive_would_block as it would be if receive tried again until a packet
\* is there.
receive_would_block_retry(t, r) ==
    /\ r.kind = "WouldBlock"
    /\ last' = NoRet
    /\ UNCHANGED <<handleVars, descVars, strong, lockVars, borrow, rxq, tx, rxVars,
                   pc, localVars, wlog, acq, nest>>

\* receive_would_block as it would be without the WouldBlock arm: the error
\* falls through to panic!.
receive_would_block_panic(t, r) ==
    /\ r.kind = "WouldBlock"
    /\ last' = [Ret("receive", t, "panic") EXCEPT !.io = r.kind, !.n = nio[t]]
    /\ poisoned' = TRUE
    /\ UNCHANGED <<rxq, rxVars, tx, strong, descVars>>
    /\ receive_exit(t)

\* Err(ref err) if err.kind() == io::ErrorKind::WouldBlock => None
receive_would_block(t, r) ==
    /\ r.kind = "WouldBlock"
    /\ last' = [Ret("receive", t, "None") EXCEPT !.io = r.kind, !.n = nio[t]]
    /\ UNCHANGED <<rxq, rxVars, tx, strong, descVars, poisoned>>
    /\ receive_exit(t)

\* receive_err as it would be if every read error were taken for "no data".
receive_err_none(t, r) ==
    /\ r.kind = "Err"
    /\ last' = [Ret("receive", t, "None") EXCEPT !.io = r.kind, !.n = nio[t]]
    /\ UNCHANGED <<rxq, rxVars, tx, strong, descVars, poisoned>>
    /\ receive_exit(t)

\* Err(err) => panic!("{}", err): the guard is dropped while unwinding, which
\* poisons the mutex.
receive_err(t, r) ==
    /\ r.kind = "Err"
    /\ last' = [Ret("receive", t, "panic") EXCEPT !.io = r.kind, !.n = nio[t]]
    /\ poisoned' = TRUE
    /\ UNCHANGED <<rxq, rxVars, tx, strong, descVars>>
    /\ receive_exit(t)

\* The read returns and the match on its result runs to the end of receive.
receive_match(t) ==
    /\ pc[t] = "rx_reading"
    /\ \E r \in RecvResults(rxq, Len(buf[t])) :
         \/ receive_ok(t, r)
         \/ receive_would_block(t, r)
         \/ receive_err(t, r)

\* ----------------------------------------------------------------- transmit
\* transmit as it would be if the token did not own a clone of the Arc.
transmit_noclone(t) ==
    /\ pc[t] = "idle"
    /\ hstate = "open"
    /\ borrow = NoThread
    /\ NextId(tx) # 0
    /\ tx' = [tx EXCEPT ![NextId(tx)] = "created"]
    /\ last' = [Ret("transmit", t, "Some") EXCEPT !.txt = NextId(tx)]
    /\ UNCHANGED <<handleVars, descVars, strong, lockVars, borrow, rxq, rxVars, pc,
                   localVars, wlog, acq, nest>>

\* transmit as it would be if it took the descriptor's lock to make the
\* token (self.lower.lock().unwrap() before the clone).
transmit_locking(t) ==
    /\ pc[t] = "idle"
    /\ hstate = "open"
    /\ borrow = NoThread
    /\ NextId(tx) # 0
    /\ locked = NoThread
    /\ IF poisoned
       THEN /\ last' = Ret("transmit", t, "panic")
            /\ UNCHANGED <<tx, strong, descVars>>
       ELSE /\ tx' = [tx EXCEPT ![NextId(tx)] = "created"]
            /\ ArcClone
            /\ last' = [Ret("transmit", t, "Some") EXCEPT !.txt = NextId(tx)]
    /\ UNCHANGED <<handleVars, lockVars, borrow, rxq, rxVars, pc, localVars, wlog, acq, nest>>

transmit(t) ==
    /\ pc[t] = "idle"
    /\ hstate = "open"
    /\ borrow = NoThread
    /\ NextId(tx) # 0
    /\ tx' = [tx EXCEPT ![NextId(tx)] = "created"]
    /\ ArcClone
    /\ last' = [Ret("transmit", t, "Some") EXCEPT !.txt = NextId(tx)]
    /\ UNCHANGED <<handleVars, lockVars, borrow, rxq, rxVars, pc, localVars, wlog, acq, nest>>

\* --------------------------------------------------------- RxToken::consume
\* f(&mut self.buffer[..]): the callback is given the buffer (a), may rewrite
\* it in place (out) and returns r, which consume returns.
RxToken_consume(t, k, out, r) ==
    /\ pc[t] = "idle"
    /\ rx[k] = "created"
    /\ Len(out) = Len(rxbuf[k])
    /\ last' = [Ret("rx_consume", t, r) EXCEPT
                   !.rxt = k, !.cb = r, !.a = rxbuf[k], !.b = delivered[k]]
    /\ rx' = [rx EXCEPT ![k] = "consumed"]
    /\ rxbuf' = [rxbuf EXCEPT ![k] = <<>>]
    /\ delivered' = [delivered EXCEPT ![k] = Unset]
    /\ UNCHANGED <<handleVars, descVars, strong, lockVars, borrow, rxq, tx, pc,
                   localVars, wlog, acq, nest>>

\* An RxToken is dropped without being consumed.
RxToken_drop(k) ==
    /\ rx[k] = "created"
    /\ rx' = [rx EXCEPT ![k] = "dropped"]
    /\ rxbuf' = [rxbuf EXCEPT ![k] = <<>>]
    /\ delivered' = [delivered EXCEPT ![k] = Unset]
    /\ last' = NoRet
    /\ UNCHANGED <<handleVars, descVars, strong, lockVars, borrow, rxq, tx, pc,
                   localVars, wlog, acq, nest>>

\* --------------------------------------------------------- TxToken::consume
\* consume(self, _timestamp, len, f) is entered: the token is moved into it.
TxToken_consume_call(t, k, n) ==
    /\ pc[t] = "idle"
    /\ tx[k] = "created"
    /\ tx' = [tx EXCEPT ![k] = "consuming"]
    /\ cur' = [cur EXCEPT ![t] = k]
    /\ len' = [len EXCEPT ![t] = n]
    /\ pc' = [pc EXCEPT ![t] = "tx_lock"]
    /\ last' = NoRet
    /\ UNCHANGED <<handleVars, descVars, strong, lockVars, borrow, rxq, rxVars,
                   buf, res, given, wrote, nio, wlog, acq, nest>>

\* TxToken_consume_exit as it would be if consume took &self and left the
\* token with its caller, to be consumed again.
TxToken_consume_exit_reusable(t, val, wr) ==
    /\ last' = [Ret("tx_consume", t, val) EXCEPT
                   !.txt = cur[t], !.cb = res[t], !.io = wr, !.n = nio[t]]
    /\ tx' = [tx EXCEPT ![cur[t]] = "created"]
    /\ UNCHANGED <<strong, descVars>>
    /\ pc' = [pc EXCEPT ![t] = "idle"]
    /\ cur' = [cur EXCEPT ![t] = 0]
    /\ len' = [len EXCEPT ![t] = 0]
    /\ buf' = [buf EXCEPT ![t] = <<>>]
    /\ res' = [res EXCEPT ![t] = "none"]
    /\ given' = [given EXCEPT ![t] = Unset]
    /\ wrote' = [wrote EXCEPT ![t] = Unset]
    /\ nio' = [nio EXCEPT ![t] = 0]

\* The end of consume on thread t, by return or by unwinding: the guard (if
\* held) and then self, with its Arc, are dropped.
TxToken_consume_exit(t, val, wr) ==
    /\ last' = [Ret("tx_consume", t, val) EXCEPT
                   !.txt = cur[t], !.cb = res[t], !.io = wr, !.n = nio[t]]
    /\ tx' = [tx EXCEPT ![cur[t]] = "consumed"]
    /\ ArcDrop
    /\ pc' = [pc EXCEPT ![t] = "idle"]
    /\ cur' = [cur EXCEPT ![t] = 0]
    /\ len' = [len EXCEPT ![t] = 0]
    /\ buf' = [buf EXCEPT ![t] = <<>>]
    /\ res' = [res EXCEPT ![t] = "none"]
    /\ given' = [given EXCEPT ![t] = Unset]
    /\ wrote' = [wrote EXCEPT ![t] = Unset]
    /\ nio' = [nio EXCEPT ![t] = 0]

\* TxToken_consume_lock as it would be if a poisoned mutex were recovered
\* (lock().unwrap_or_else(|e| e.into_inner())) instead of unwrapped.
TxToken_consume_lock_recover(t) ==
    /\ pc[t] = "tx_lock"
    /\ locked = NoThread
    /\ locked' = t
    /\ acq' = Append(acq, cur[t])
    /\ buf' = [buf EXCEPT ![t] = Zeros(len[t])]
    /\ pc' = [pc EXCEPT ![t] = "tx_f"]
    /\ last' = NoRet
    /\ UNCHANGED <<tx, strong, descVars, cur, len, res, given, wrote, nio>>
    /\ UNCHANGED <<handleVars, poisoned, borrow, rxq, rxVars, wlog, nest>>

\* TxToken_consume_lock as it would be if the buffer were allocated with at
\* most mtu bytes (vec![0; min(len, mtu)]).
TxToken_consume_lock_mtubuf(t) ==
    /\ pc[t] = "tx_lock"
    /\ locked = NoThread
    /\ IF poisoned
       THEN /\ TxToken_consume_exit(t, "panic", "none")
            /\ UNCHANGED <<locked, acq>>
       ELSE /\ locked' = t
            /\ acq' = Append(acq, cur[t])
            /\ buf' = [buf EXCEPT ![t] = Zeros(Min(len[t], mtu))]
            /\ pc' = [pc EXCEPT ![t] = "tx_f"]
            /\ last' = NoRet
            /\ UNCHANGED <<tx, strong, descVars, cur, len, res, given, wrote, nio>>
    /\ UNCHANGED <<handleVars, poisoned, borrow, rxq, rxVars, wlog, nest>>

\* let mut lower = self.lower.lock().unwrap(); let mut buffer = vec![0; len];
TxToken_consume_lock(t) ==
    /\ pc[t] = "tx_lock"
    /\ locked = NoThread
    /\ IF poisoned
       THEN /\ TxToken_consume_exit(t, "panic", "none")
            /\ UNCHANGED <<locked, acq>>
       ELSE /\ locked' = t
            /\ acq' = Append(acq, cur[t])
            /\ buf' = [buf EXCEPT ![t] = Zeros(len[t])]
            /\ pc' = [pc EXCEPT ![t] = "tx_f"]
            /\ last' = NoRet
            /\ UNCHANGED <<tx, strong, descVars, cur, len, res, given, wrote, nio>>
    /\ UNCHANGED <<handleVars, poisoned, borrow, rxq, rxVars, wlog, nest>>

\* TxToken_consume_f as it would be if the guard were dropped when the
\* callback returned (drop(lower)) and the write made without the lock.
TxToken_consume_f_unlock(t, out, r) ==
    /\ pc[t] = "tx_f"
    /\ Len(out) = Len(buf[t])
    /\ IF r = "panic"
       THEN /\ TxToken_consume_exit(t, "panic", "none")
            /\ locked' = NoThread
            /\ poisoned' = TRUE
       ELSE /\ given' = [given EXCEPT ![t] = buf[t]]
            /\ buf' = [buf EXCEPT ![t] = out]
            /\ res' = [res EXCEPT ![t] = r]
            /\ pc' = [pc EXCEPT ![t] = "tx_send"]
            /\ last' = NoRet
            /\ locked' = NoThread
            /\ UNCHANGED <<tx, strong, descVars, cur, len, wrote, nio, poisoned>>
    /\ UNCHANGED <<handleVars, borrow, rxq, rxVars, wlog, acq, nest>>

\* let result = f(&mut buffer): the callback is handed the buffer, leaves it
\* as `out` and returns r, or panics.
TxToken_consume_f(t, out, r) ==
    /\ pc[t] = "tx_f"
    /\ Len(out) = Len(buf[t])
    /\ IF r = "panic"
       THEN /\ TxToken_consume_exit(t, "panic", "none")
            /\ locked' = NoThread
            /\ poisoned' = TRUE
       ELSE /\ given' = [given EXCEPT ![t] = buf[t]]
            /\ buf' = [buf EXCEPT ![t] = out]
            /\ res' = [res EXCEPT ![t] = r]
            /\ pc' = [pc EXCEPT ![t] = "tx_send"]
            /\ last' = NoRet
            /\ UNCHANGED <<tx, strong, descVars, cur, len, wrote, nio, lockVars>>
    /\ UNCHANGED <<handleVars, borrow, rxq, rxVars, wlog, acq, nest>>

\* The operations on the handle and its tokens that start with
\* lower.lock().unwrap(), and the position of one that a callback called.
NestedOps == {"receive", "tx_consume", "as_raw_fd"}
NestedPc(op) == "nested_" \o op
NestedPcs == {NestedPc(op) : op \in NestedOps}

\* let result = f(&mut buffer), where f itself uses the handle: inside the
\* callback, on the thread that holds the guard, receive or as_raw_fd is
\* called on the handle, or TxToken k is consumed.  The nested operation is
\* entered and arrives at its own self.lower.lock().
TxToken_consume_f_reenter(t, op, k) ==
    /\ pc[t] = "tx_f"
    /\ op \in NestedOps
    /\ IF op = "tx_consume"
       THEN /\ k \in TxIds
            /\ tx[k] = "created"
            /\ tx' = [tx EXCEPT ![k] = "consuming"]
            /\ nest' = [nest EXCEPT ![t] = k]
            /\ UNCHANGED borrow
       ELSE /\ k = 0
            /\ hstate = "open"
            /\ borrow = NoThread
            /\ borrow' = IF op = "receive" THEN t ELSE borrow
            /\ UNCHANGED <<tx, nest>>
    /\ given' = [given EXCEPT ![t] = buf[t]]
    /\ pc' = [pc EXCEPT ![t] = NestedPc(op)]
    /\ last' = NoRet
    /\ UNCHANGED <<handleVars, descVars, strong, lockVars, rxq, rxVars, cur, len,
                   buf, res, wrote, nio, wlog, acq>>

\* The outcomes of Mutex::lock on the thread that already holds the guard:
\* the call does not return; it blocks for ever or it panics.
RelockOutcomes == {"deadlock", "panic"}

\* nested_lock as it would be if the mutex were re-entrant: the nested
\* operation gets the lock on the thread that holds it, completes, and the
\* callback goes on.
nested_lock_reentrant(t, outcome) ==
    /\ pc[t] \in NestedPcs
    /\ outcome \in RelockOutcomes
    /\ LET dropped == {nest[t]} \cap TxIds
           n == Cardinality(dropped)
       IN  /\ tx' = [k \in TxIds |-> IF k \in dropped THEN "consumed" ELSE tx[k]]
           /\ strong' = strong - n
    /\ borrow' = IF borrow = t THEN NoThread ELSE borrow
    /\ nest' = [nest EXCEPT ![t] = 0]
    /\ pc' = [pc EXCEPT ![t] = "tx_f"]
    /\ last' = Ret("nested", t, "Some")
    /\ UNCHANGED <<handleVars, descVars, lockVars, rxq, rxVars, cur, len, buf, res,
                   given, wrote, nio, wlog, acq>>

\* The nested self.lower.lock() on the thread holding the guard.  When it
\* panics the panic unwinds through the nested operation (its token, if any,
\* is dropped), through f and through the enclosing consume, whose guard is
\* dropped while panicking (the mutex is poisoned) and whose token is dropped.
nested_lock(t, outcome) ==
    /\ pc[t] \in NestedPcs
    /\ outcome \in RelockOutcomes
    /\ IF outcome = "deadlock"
       THEN /\ pc' = [pc EXCEPT ![t] = "deadlocked"]
            /\ last' = NoRet
            /\ UNCHANGED <<descVars, strong, lockVars, borrow, tx, localVars, nest>>
       ELSE /\ LET dropped == {cur[t], nest[t]} \cap TxIds
                   n == Cardinality(dropped)
               IN  /\ tx' = [k \in TxIds |-> IF k \in dropped THEN "consumed" ELSE tx[k]]
                   /\ strong' = strong - n
                   /\ IF strong = n THEN DescDrop(releases) ELSE UNCHANGED descVars
            /\ last' = [Ret("tx_consume", t, "panic") EXCEPT
                           !.txt = cur[t], !.n = nio[t]]
            /\ locked' = NoThread
            /\ poisoned' = TRUE
            /\ borrow' = IF borrow = t THEN NoThread ELSE borrow
            /\ pc' = [pc EXCEPT ![t] = "idle"]
            /\ cur' = [cur EXCEPT ![t] = 0]
            /\ len' = [len EXCEPT ![t] = 0]
            /\ buf' = [buf EXCEPT ![t] = <<>>]
            /\ res' = [res EXCEPT ![t] = "none"]
            /\ given' = [given EXCEPT ![t] = Unset]
            /\ wrote' = [wrote EXCEPT ![t] = Unset]
            /\ nio' = [nio EXCEPT ![t] = 0]
            /\ nest' = [nest EXCEPT ![t] = 0]
    /\ UNCHANGED <<handleVars, rxq, rxVars, wlog, acq>>

\* TxToken_consume_send as it would be if the payload were cut to the MTU
\* (&buffer[..min(len, mtu)]).
TxToken_consume_send_clamped(t) ==
    /\ pc[t] = "tx_send"
    /\ pc' = [pc EXCEPT ![t] = "tx_writing"]
    /\ wrote' = [wrote EXCEPT ![t] = SubSeq(buf[t], 1, Min(Len(buf[t]), mtu))]
    /\ nio' = [nio EXCEPT ![t] = nio[t] + 1]
    /\ wlog' = Append(wlog, cur[t])
    /\ last' = NoRet
    /\ UNCHANGED <<handleVars, descVars, strong, lockVars, borrow, rxq, tx, rxVars,
                   cur, len, buf, res, given, acq, nest>>

\* TxToken_consume_send as it would be if the callback's error were
\* propagated before the write (let result = f(&mut buffer)?).
TxToken_consume_send_unless_err(t) ==
    /\ pc[t] = "tx_send"
    /\ IF res[t] = "Err"
       THEN /\ TxToken_consume_exit(t, "Err", "none")
            /\ locked' = NoThread
            /\ UNCHANGED <<poisoned, wlog>>
       ELSE /\ pc' = [pc EXCEPT ![t] = "tx_writing"]
            /\ wrote' = [wrote EXCEPT ![t] = buf[t]]
            /\ nio' = [nio EXCEPT ![t] = nio[t] + 1]
            /\ wlog' = Append(wlog, cur[t])
            /\ last' = NoRet
            /\ UNCHANGED <<descVars, strong, lockVars, tx, cur, len, buf, res, given>>
    /\ UNCHANGED <<handleVars, borrow, rxq, rxVars, acq, nest>>

\* lower.send(&buffer[..]) is issued: a write on the descriptor is in progress.
TxToken_consume_send(t) ==
    /\ pc[t] = "tx_send"
    /\ pc' = [pc EXCEPT ![t] = "tx_writing"]
    /\ wrote' = [wrote EXCEPT ![t] = buf[t]]
    /\ nio' = [nio EXCEPT ![t] = nio[t] + 1]
    /\ wlog' = Append(wlog, cur[t])
    /\ last' = NoRet
    /\ UNCHANGED <<handleVars, descVars, strong, lockVars, borrow, rxq, tx, rxVars,
                   cur, len, buf, res, given, acq, nest>>

\* TxToken_consume_return as it would be if the write's failure were swallowed
\* (let _ = lower.send(..)) and `result` returned all the same.
TxToken_consume_return_swallow(t, s) ==
    /\ pc[t] = "tx_writing"
    /\ TxToken_consume_exit(t, res[t], s)
    /\ locked' = NoThread
    /\ UNCHANGED <<handleVars, poisoned, borrow, rxq, rxVars, wlog, acq, nest>>

\* TxToken_consume_return as it would be if the guard were leaked
\* (mem::forget(lower)) and the mutex stayed locked after consume returned.
TxToken_consume_return_keeplock(t, s) ==
    /\ pc[t] = "tx_writing"
    /\ IF s = "Ok"
       THEN /\ TxToken_consume_exit(t, res[t], "Ok")
            /\ UNCHANGED poisoned
       ELSE /\ TxToken_consume_exit(t, "panic", "Err")
            /\ poisoned' = TRUE
    /\ UNCHANGED locked
    /\ UNCHANGED <<handleVars, borrow, rxq, rxVars, wlog, acq, nest>>

\* The write returns; .unwrap() panics on its failure, else `result` is returned.
TxToken_consume_return(t, s) ==
    /\ pc[t] = "tx_writing"
    /\ IF s = "Ok"
       THEN /\ TxToken_consume_exit(t, res[t], "Ok")
            /\ UNCHANGED poisoned
       ELSE /\ TxToken_consume_exit(t, "panic", "Err")
            /\ poisoned' = TRUE
    /\ locked' = NoThread
    /\ UNCHANGED <<handleVars, borrow, rxq, rxVars, wlog, acq, nest>>

\* A TxToken is dropped without being consumed.
TxToken_drop(k) ==
    /\ tx[k] = "created"
    /\ tx' = [tx EXCEPT ![k] = "dropped"]
    /\ ArcDrop
    /\ last' = NoRet
    /\ UNCHANGED <<handleVars, lockVars, borrow, rxq, rxVars, pc, localVars, wlog, acq, nest>>

\* ------------------------------------------------------------ specification
Next ==
    \/ \E t \in Threads : New(t)
    \/ \E t \in Threads : NewWithFd(t)
    \/ DropHandle
    \/ \E p \in BytesUpTo(MaxLen) : Inject(p)
    \/ \E t \in Threads : capabilities(t)
    \/ \E t \in Threads : as_raw_fd(t)
    \/ \E t \in Threads : receive_call(t)
    \/ \E t \in Threads : receive_lock(t)
    \/ \E t \in Threads : receive_recv(t)
    \/ \E t \in Threads : receive_match(t)
    \/ \E t \in Threads : transmit(t)
    \/ \E t \in Threads, k \in RxIds, out \in BytesUpTo(MaxMtu), r \in CbResults :
          RxToken_consume(t, k, out, r)
    \/ \E k \in RxIds : RxToken_drop(k)
    \/ \E t \in Threads, k \in TxIds, n \in 0..MaxLen : TxToken_consume_call(t, k, n)
    \/ \E t \in Threads : TxToken_consume_lock(t)
    \/ \E t \in Threads, out \in BytesUpTo(MaxLen), r \in CbResults \cup {"panic"} :
          TxToken_consume_f(t, out, r)
    \/ \E t \in Threads, op \in NestedOps, k \in TxIds \cup {0} :
          TxToken_consume_f_reenter(t, op, k)
    \/ \E t \in Threads, outcome \in RelockOutcomes : nested_lock(t, outcome)
    \/ \E t \in Threads : TxToken_consume_send(t)
    \/ \E t \in Threads, s \in SendResults : TxToken_consume_return(t, s)
    \/ \E k \in TxIds : TxToken_drop(k)

Spec == Init /\ [][Next]_vars


\* The next step of the operation thread t is inside.
ThreadStep(t) ==
    \/ receive_lock(t)
    \/ receive_recv(t)
    \/ receive_match(t)
    \/ TxToken_consume_lock(t)
    \/ \E out \in BytesUpTo(MaxLen), r \in CbResults \cup {"panic"} :
          TxToken_consume_f(t, out, r)
    \/ \E op \in NestedOps, k \in TxIds \cup {0} : TxToken_consume_f_reenter(t, op, k)
    \/ \E outcome \in RelockOutcomes : nested_lock(t, outcome)
    \/ TxToken_consume_send(t)
    \/ \E s \in SendResults : TxToken_consume_return(t, s)

\* A thread waiting in self.lower.lock() gets the mutex.
LockStep(t) == receive_lock(t) \/ TxToken_consume_lock(t)

\* Fair scheduling: a thread whose operation can take its next step takes it,
\* and a thread waiting for the mutex is not overtaken for ever by threads
\* that lock it again and again (a polling loop of receive calls that find
\* no data would otherwise starve it).
FairSpec ==
    /\ Init /\ [][Next]_vars
    /\ \A t \in Threads : WF_vars(ThreadStep(t)) /\ SF_vars(LockStep(t))


\* ------------------------------------------------------------------ claims
IoPcs == {"rx_reading", "tx_writing"}

\* C1: at most one read or write of the descriptor is in progress at any
\* time, and the thread making it holds the descriptor's lock.
C1_DescriptorAccessExclusive ==
    /\ Cardinality({t \in Threads : pc[t] \in IoPcs}) <= 1
    /\ \A t \in Threads : pc[t] \in IoPcs => locked = t

\* A write is in progress while another thread's receive waits for the lock.
C1_Witness ==
    \E t, u \in Threads : t # u /\ pc[t] = "tx_writing" /\ pc[u] = "rx_lock"

\* C2 as stated: consume returns the callback's result whether the write to
\* the descriptor succeeded or failed.
C2_ResultReturnedRegardlessOfWrite ==
    (last.op = "tx_consume" /\ last.io \in SendResults) => last.val = last.cb

\* C2, amended: consume returns the callback's result when the write
\* succeeded; when the write failed it panics and returns nothing.
C2_ResultReturnedIffWriteOk ==
    last.op = "tx_consume" =>
        /\ last.io = "Ok" => (last.val = last.cb /\ last.cb \in CbResults)
        /\ last.io = "Err" => (last.val = "panic" /\ last.cb \in CbResults)

\* A consumption whose write failed has just ended.
C2_Witness ==
    last.op = "tx_consume" /\ last.io = "Err" /\ last.cb = "Ok"


RxPcs == {"rx_lock", "rx_recv", "rx_reading"}

\* The next step of the receive running on thread t.
receive_step(t) == receive_lock(t) \/ receive_recv(t) \/ receive_match(t)

\* receive on thread t returns v in this step.
receive_returns(t, v) == receive_match(t) /\ last'.val = v

\* C3 as stated: a receive that was called never waits; in every state its
\* next step can be taken at once, whatever the other threads are doing.
C3_ReceiveNeverWaits ==
    \A t \in Threads : pc[t] \in RxPcs => ENABLED receive_step(t)

\* C3, amended: receive never waits for data.  Holding the lock it issues its
\* one read at once, and the read returns at once: "no data" when nothing is
\* queued, the tokens when a packet is.  It waits only for the descriptor's
\* lock, and only while a TxToken consumption holds it: one on another
\* thread, or the one whose callback called this receive.
C3_ReceiveWaitsOnlyForLock ==
    \A t \in Threads :
        /\ pc[t] = "rx_lock" =>
              (ENABLED receive_lock(t) \/ locked \in Threads \ {t})
        /\ pc[t] = NestedPc("receive") => (locked = t /\ cur[t] \in TxIds)
        /\ pc[t] = "rx_recv" => ENABLED receive_recv(t)
        /\ (pc[t] = "rx_reading" /\ rxq = <<>>) => ENABLED receive_returns(t, "None")
        /\ (pc[t] = "rx_reading" /\ rxq # <<>>) => ENABLED receive_returns(t, "Some")

\* A receive has its read in progress with nothing queued, while the other
\* thread waits for the lock to consume a TxToken.
C3_Witness ==
    \E t, u \in Threads :
        /\ pc[t] = "rx_reading" /\ rxq = <<>>
        /\ pc[u] = "tx_lock"

\* How often TxToken k occurs in the log of writes.
Writes(k) == Cardinality({i \in 1..Len(wlog) : wlog[i] = k})

\* C4: a completed consume(len, f) has issued exactly one write, after f
\* returned and before consume returns, of the len-byte buffer as f left it;
\* a TxToken that was not consumed has caused no write.
C4_ExactlyOneWriteOfBuffer ==
    /\ \A t \in Threads : pc[t] = "tx_writing" =>
          /\ wrote[t] = buf[t]
          /\ Len(wrote[t]) = len[t]
          /\ given[t] # Unset
          /\ nio[t] = 1
          /\ Writes(cur[t]) = 1
    /\ (last.op = "tx_consume" /\ last.val \in CbResults) =>
          (last.n = 1 /\ Writes(last.txt) = 1 /\ tx[last.txt] = "consumed")
    /\ \A k \in TxIds : tx[k] \in {"none", "created", "dropped"} => Writes(k) = 0
    /\ \A k \in TxIds : Writes(k) <= 1

\* A consumption with a buffer longer than the MTU, filled by the callback,
\* has its write in progress.
C4_Witness ==
    \E t \in Threads :
        /\ pc[t] = "tx_writing"
        /\ Len(wrote[t]) > mtu
        /\ wrote[t] # Zeros(len[t])

\* C5: the callback of RxToken::consume is given exactly the bytes the
\* descriptor's read delivered, same length and order, and consume returns
\* the callback's result.
C5_ConsumerSeesBytesRead ==
    /\ \A k \in RxIds : rx[k] = "created" => rxbuf[k] = delivered[k]
    /\ last.op = "rx_consume" => (last.a = last.b /\ last.val = last.cb)

\* A two-byte packet with different bytes was consumed, the callback
\* returning an error.
C5_Witness ==
    /\ last.op = "rx_consume"
    /\ Len(last.a) = 2
    /\ last.a[1] # last.a[2]
    /\ last.val = "Err"

\* C6: when the read reports would-block, receive returns None after that one
\* read, without panicking and without issuing a token; the handle stays
\* usable, and a read that later finds a packet returns that packet.
C6_WouldBlockReturnsNothing ==
    /\ [](last.op = "receive" /\ last.io = "WouldBlock" =>
            /\ last.val = "None"
            /\ last.n = 1
            /\ last.rxt = 0 /\ last.txt = 0
            /\ ~poisoned
            /\ hstate = "open" /\ locked = NoThread /\ borrow = NoThread
            /\ \E t \in Threads : ENABLED receive_call(t))
    /\ [][(last'.op = "receive" /\ last'.io = "WouldBlock") =>
            (tx' = tx /\ rx' = rx /\ strong' = strong /\ rxq' = rxq)]_vars
    /\ [][(last'.op = "receive" /\ last'.io = "Ok") =>
            /\ rxq # <<>>
            /\ last'.val = "Some"
            /\ rx[last'.rxt] = "none" /\ rx'[last'.rxt] = "created"
            /\ delivered'[last'.rxt] =
                  SubSeq(Head(rxq), 1, Min(Len(Head(rxq)), mtu))]_vars

\* A receive has just returned from a read that reported would-block.
C6_Witness == last.op = "receive" /\ last.io = "WouldBlock" /\ last.n = 1

\* C7: when the read fails with an error other than would-block, receive
\* panics: it returns no tokens, no error value and not None.
C7_ReadErrorPanics ==
    (last.op = "receive" /\ last.io = "Err") =>
        (last.val = "panic" /\ last.rxt = 0 /\ last.txt = 0 /\ poisoned)

\* A receive has just ended on a read error, with a packet still queued.
C7_Witness == last.op = "receive" /\ last.io = "Err" /\ rxq # <<>>

OpenOps == {"new", "new_with_fd"}

\* C8: new / new_with_fd returns a constructed handle exactly when all three
\* steps succeeded; when a step fails it returns the error, there is no
\* handle, and the descriptor an earlier step opened has been released.
C8_OpenAllOrNothing ==
    last.op \in OpenOps =>
        \/ /\ last.n = 0
           /\ last.val = "Ok"
           /\ hstate = "open" /\ mtu \in Mtus /\ medium \in Mediums
           /\ desc = "open" /\ releases = 0 /\ strong = 1
        \/ /\ last.n \in 1..3
           /\ last.val = "SetupError"
           /\ hstate = "unopened" /\ mtu = 0 /\ medium = "none"
           /\ desc # "open" /\ strong = 0
           /\ last.n > 1 => (desc = "closed" /\ releases = 1)

\* new_with_fd has just failed at the MTU query.
C8_Witness == last.op = "new_with_fd" /\ last.val = "SetupError" /\ last.n = 3

\* The owners of the Arc: the handle and the TxTokens not yet consumed or dropped.
Owners ==
    (IF hstate = "open" THEN 1 ELSE 0)
      + Cardinality({k \in TxIds : tx[k] \in {"created", "consuming"}})

\* C9: the descriptor stays open while the handle or any TxToken exists, so a
\* token consumed after the handle was dropped writes to an open descriptor;
\* when the last of them is gone the descriptor is released, exactly once.
C9_ReleasedByLastOwner ==
    hstate # "unopened" =>
        /\ strong = Owners
        /\ Owners > 0 => (desc = "open" /\ releases = 0)
        /\ Owners = 0 => (desc = "closed" /\ releases = 1)
        /\ \A t \in Threads : pc[t] = "tx_writing" => desc = "open"

\* The handle was dropped and a TxToken's write is in progress.
C9_Witness ==
    hstate = "dropped" /\ \E t \in Threads : pc[t] = "tx_writing"

\* C10: an RxToken's buffer is as long as the number of bytes read, which is
\* at most the cached mtu; it has the mtu-sized allocation's length only
\* when mtu bytes were read.
C10_BufferWithinMtu ==
    \A k \in RxIds : rx[k] = "created" =>
        /\ 0 <= Len(rxbuf[k])
        /\ Len(rxbuf[k]) <= mtu
        /\ Len(rxbuf[k]) = Len(delivered[k])

\* An RxToken holds a packet shorter than the MTU.
C10_Witness ==
    \E k \in RxIds : rx[k] = "created" /\ Len(rxbuf[k]) < mtu /\ Len(rxbuf[k]) > 0

\* C11: capabilities() returns the mtu and medium the handle was constructed
\* with, the same in every state of the handle whatever receives, transmits
\* and consumptions happened; it changes nothing (no read, no write, no lock,
\* no query of the descriptor), and it can be called and succeeds in every
\* state of the handle, also while the lock is held or poisoned.
C11_CapabilitiesConstant ==
    /\ [](last.op = "capabilities" =>
            /\ last.val = "Some"
            /\ last.a = <<mtu, medium>>
            /\ mtu \in Mtus /\ medium \in Mediums)
    /\ [](\A t \in Threads :
            (hstate = "open" /\ borrow = NoThread /\ pc[t] = "idle") =>
                ENABLED capabilities(t))
    /\ [][hstate # "unopened" => (mtu' = mtu /\ medium' = medium)]_vars
    /\ [][last'.op = "capabilities" =>
            UNCHANGED <<handleVars, descVars, strong, lockVars, borrow, rxq, tx,
                        rxVars, pc, localVars, wlog, acq, nest>>]_vars

\* capabilities has just returned while a consumption on another thread has
\* its write in progress, after a packet was received.
C11_Witness ==
    /\ last.op = "capabilities"
    /\ \E u \in Threads : pc[u] = "tx_writing" /\ locked = u
    /\ \E k \in RxIds : rx[k] # "none"

\* C12: transmit returns a TxToken whenever it is called, in every state of
\* the handle: it does not wait for the lock and does not fail when the lock
\* is held or poisoned.  It issues one new token and makes no read or write;
\* a token that was only issued has caused no write.
C12_TransmitTouchesNothing ==
    /\ [](\A t \in Threads :
            (hstate = "open" /\ borrow = NoThread /\ pc[t] = "idle"
                /\ NextId(tx) # 0) => ENABLED transmit(t))
    /\ [](last.op = "transmit" =>
            (last.val = "Some" /\ last.txt \in TxIds /\ tx[last.txt] = "created"))
    /\ [](\A k \in TxIds : tx[k] = "created" =>
            (Writes(k) = 0 /\ \A i \in 1..Len(acq) : acq[i] # k))
    /\ [][last'.op = "transmit" =>
            /\ tx[last'.txt] = "none"
            /\ \A k \in TxIds \ {last'.txt} : tx'[k] = tx[k]
            /\ UNCHANGED <<handleVars, descVars, lockVars, borrow, rxq, rxVars,
                           pc, localVars, wlog, acq, nest>>]_vars

\* transmit has just returned a token while another thread's consumption
\* holds the lock with its write in progress.
C12_Witness ==
    /\ last.op = "transmit"
    /\ last.val = "Some"
    /\ \E u \in Threads : pc[u] = "tx_writing" /\ locked = u

\* C13: when the callback of consume(len, f) is invoked its buffer has exactly
\* len bytes, all zero, for every len (0 and lengths above the mtu included)
\* and whatever was received or transmitted before.
C13_CallbackGetsZeroedBuffer ==
    \A t \in Threads :
        /\ pc[t] = "tx_f" => (Len(buf[t]) = len[t] /\ buf[t] = Zeros(len[t]))
        /\ pc[t] \in {"tx_send", "tx_writing"} \cup NestedPcs =>
              (Len(given[t]) = len[t] /\ \A i \in 1..len[t] : given[t][i] = 0)

\* A callback was handed a buffer longer than the mtu and filled it with
\* non-zero bytes, after an earlier consumption wrote a non-zero payload.
C13_Witness ==
    \E t \in Threads :
        /\ pc[t] = "tx_send"
        /\ len[t] > mtu
        /\ buf[t] # given[t]
        /\ wlog # <<>>

\* The steps a TxToken / an RxToken can take.  Besides being consumed, a token
\* can be dropped unused; "consuming" is a TxToken inside consume.
TxSteps == {<<"none", "created">>, <<"created", "consuming">>,
            <<"consuming", "consumed">>, <<"created", "dropped">>}
RxSteps == {<<"none", "created">>, <<"created", "consumed">>,
            <<"created", "dropped">>}

\* C14: a token is consumed at most once.  It goes from created to consumed
\* and never back, only a created token can be consumed, a token being
\* consumed is consumed by one thread, and so there are never more writes
\* than TxTokens issued (at most one for each).
C14_TokensConsumedAtMostOnce ==
    /\ [](\A k \in TxIds : Writes(k) <= 1)
    /\ [](Len(wlog) <= Cardinality({k \in TxIds : tx[k] # "none"}))
    /\ [](\A k \in TxIds :
            /\ tx[k] = "consuming" <=>
                  Cardinality({t \in Threads : cur[t] = k \/ nest[t] = k}) = 1
            /\ tx[k] # "consuming" => \A t \in Threads : cur[t] # k /\ nest[t] # k
            /\ tx[k] # "created" =>
                  \A t \in Threads, n \in 0..MaxLen :
                      /\ ~ENABLED TxToken_consume_call(t, k, n)
                      /\ ~ENABLED TxToken_consume_f_reenter(t, "tx_consume", k))
    /\ [](\A k \in RxIds : rx[k] # "created" =>
            \A t \in Threads, out \in BytesUpTo(MaxMtu), r \in CbResults :
                ~ENABLED RxToken_consume(t, k, out, r))
    /\ [][\A k \in TxIds : tx'[k] # tx[k] => <<tx[k], tx'[k]>> \in TxSteps]_vars
    /\ [][\A k \in RxIds : rx'[k] # rx[k] => <<rx[k], rx'[k]>> \in RxSteps]_vars

\* Both tokens of a receive were consumed, the TxToken with its one write,
\* while a second TxToken is still unused.
C14_Witness ==
    /\ \E k \in RxIds : rx[k] = "consumed"
    /\ \E k, j \in TxIds :
          /\ tx[k] = "consumed" /\ Writes(k) = 1
          /\ tx[j] = "created"
    /\ Len(wlog) = 1

\* C15: a receive that returns a packet issues exactly one new RxToken and
\* exactly one new TxToken, and that TxToken is one more owner of the handle's
\* Arc<Mutex<descriptor>>: its consumption waits for the lock while another
\* holder has it, and writes to the descriptor holding that lock.
C15_ReceivePairsSharedTxToken ==
    /\ [][(last'.op = "receive" /\ last'.val = "Some") =>
            /\ last'.rxt \in RxIds /\ last'.txt \in TxIds
            /\ rx[last'.rxt] = "none" /\ rx'[last'.rxt] = "created"
            /\ tx[last'.txt] = "none" /\ tx'[last'.txt] = "created"
            /\ \A k \in RxIds \ {last'.rxt} : rx'[k] = rx[k]
            /\ \A k \in TxIds \ {last'.txt} : tx'[k] = tx[k]
            /\ strong' = strong + 1
            /\ UNCHANGED descVars]_vars
    /\ [](strong = Owners \/ hstate = "unopened")
    /\ [](\A t \in Threads :
            /\ (pc[t] = "tx_lock" /\ locked # NoThread) =>
                  ~ENABLED TxToken_consume_lock(t)
            /\ pc[t] = "tx_writing" => (locked = t /\ desc = "open"))

\* A receive has just returned its pair of tokens while another thread waits
\* for the lock to consume a TxToken.
C15_Witness ==
    /\ last.op = "receive"
    /\ last.val = "Some"
    /\ tx[last.txt] = "created"
    /\ \E u \in Threads : pc[u] = "tx_lock"

LockHolderPcs == {"rx_recv", "rx_reading", "tx_f", "tx_send", "tx_writing",
                  "deadlocked"} \cup NestedPcs

\* No operation has aborted and no callback has used the handle.
NoAbortNoReentry ==
    /\ ~poisoned
    /\ last.val # "panic"
    /\ \A t \in Threads : pc[t] \notin NestedPcs \cup {"deadlocked"}

CallbackToWritePcs == {"tx_f", "tx_send", "tx_writing", "deadlocked"} \cup NestedPcs

\* TxToken k has had its write issued.
Written(k) == Writes(k) = 1

\* C17: a consumption holds the lock from the call of f until its write has
\* returned; while it is between the two no other thread starts a read or a
\* write and the only write issued is its own; so the writes reach the
\* descriptor in the order in which the consumptions acquired the lock,
\* which need not be the order in which the tokens were issued.
C17_LockHeldFromCallbackToWrite ==
    /\ [](\A t \in Threads : pc[t] \in CallbackToWritePcs => locked = t)
    /\ [](SelectSeq(acq, Written) = wlog)
    /\ [][\A t \in Threads : pc[t] \in CallbackToWritePcs =>
            /\ \A u \in Threads \ {t} :
                  (pc'[u] \notin IoPcs /\ pc'[u] # "rx_recv" /\ nio'[u] = nio[u])
            /\ wlog' # wlog => (wlog' = Append(wlog, cur[t]) /\ pc[t] = "tx_send")
            /\ acq' = acq]_vars

\* Two TxTokens were written in the reverse of the order they were issued in.
C17_Witness ==
    /\ Len(wlog) = 2
    /\ wlog[1] > wlog[2]
    /\ acq = wlog

C19_ReentrantCallbackNeverCompletes ==
    /\ [](\A t \in Threads : pc[t] \in NestedPcs \cup {"deadlocked"} =>
            /\ locked = t
            /\ cur[t] \in TxIds /\ tx[cur[t]] = "consuming"
            /\ nio[t] = 0 /\ Writes(cur[t]) = 0
            /\ nest[t] # 0 => (tx[nest[t]] = "consuming" /\ Writes(nest[t]) = 0))
    /\ [](\A t \in Threads : pc[t] = "deadlocked" => ~ENABLED ThreadStep(t))
    /\ [][\A t \in Threads : pc[t] = "deadlocked" =>
            (pc'[t] = "deadlocked" /\ locked' = t /\ wlog' = wlog)]_vars
    /\ [][\A t \in Threads : (pc[t] \in NestedPcs /\ pc'[t] # pc[t]) =>
            \/ pc'[t] = "deadlocked" /\ last' = NoRet
            \/ /\ pc'[t] = "idle"
               /\ last'.op = "tx_consume" /\ last'.val = "panic" /\ last'.n = 0
               /\ last'.txt = cur[t] /\ Writes(cur[t])' = 0
               /\ nest[t] # 0 => (tx'[nest[t]] = "consumed" /\ Writes(nest[t])' = 0)
               /\ wlog' = wlog
               /\ poisoned']_vars

\* The callback of a consumption called receive on the handle and its thread
\* is stuck in the nested lock(), while another thread waits for the lock too.
C19_Witness ==
    \E t, u \in Threads :
        /\ t # u
        /\ pc[t] = "deadlocked" /\ borrow = t
        /\ pc[u] = "tx_lock"

LockingOps == {"receive", "tx_consume", "as_raw_fd"}

\* C20: the mutex becomes poisoned when an operation aborts holding the lock,
\* and stays poisoned.  From then on nobody holds the lock, every receive,
\* consume and as_raw_fd ends in a panic without a read or a write, no read
\* or write reaches the descriptor any more, and capabilities and transmit
\* still can be called and succeed.
C20_PoisonedForGood ==
    /\ [][poisoned => poisoned']_vars
    /\ [][(~poisoned /\ poisoned') =>
            /\ locked \in Threads /\ locked' = NoThread
            /\ last'.op \in LockingOps /\ last'.val = "panic"]_vars
    /\ [](poisoned =>
            /\ locked = NoThread
            /\ \A t \in Threads : pc[t] \in {"idle", "rx_lock", "tx_lock"}
            /\ last.op \in LockingOps => last.val = "panic"
            /\ last.op \in {"capabilities", "transmit"} => last.val = "Some"
            /\ \A t \in Threads :
                  (hstate = "open" /\ borrow = NoThread /\ pc[t] = "idle") =>
                      /\ ENABLED capabilities(t)
                      /\ ENABLED as_raw_fd(t)
                      /\ NextId(tx) # 0 => ENABLED transmit(t))
    /\ [][poisoned =>
            /\ wlog' = wlog /\ acq' = acq /\ nio' = nio
            /\ Len(rxq') >= Len(rxq)
            /\ last'.op \in LockingOps =>
                  (last'.val = "panic" /\ last'.n = 0 /\ last'.io = "none")]_vars

\* After the mutex was poisoned a TxToken was consumed: its consume panicked
\* at lock() and no write was made for it.
C20_Witness ==
    /\ poisoned
    /\ last.op = "tx_consume"
    /\ last.val = "panic"
    /\ last.txt \in TxIds
    /\ \A i \in 1..Len(acq) : acq[i] # last.txt

====
